---- MODULE Spec2Model ----
(***************************************************************************)
(* Urho3D Shader resource (Source/Engine/Graphics/Shader.cpp): loading a   *)
(* combined shader source with #include flattening, splitting it into the  *)
(* vertex and pixel stage sources, and the per-stage cache of shader       *)
(* variations keyed by the hash of the sanitated defines.                  *)
(*                                                                         *)
(* A String is a sequence of one-character strings; a stream (File,        *)
(* Deserializer) is a name and the sequence of lines ReadLine() returns.   *)
(***************************************************************************)
EXTENDS Integers, Sequences, FiniteSets, TLC

VARIABLES
    useOpenGL,       \* the build has USE_OPENGL defined
    vsSourceCode_,   \* Shader::vsSourceCode_
    psSourceCode_,   \* Shader::psSourceCode_
    vsVariations_,   \* Shader::vsVariations_ : StringHash -> variation handle
    psVariations_,   \* Shader::psVariations_ : StringHash -> variation handle
    variations,      \* the ShaderVariation objects, by handle (1..Len)
    memoryUse_,      \* Resource::memoryUse_
    pc,              \* "idle", or "ProcessSource" while a Load is flattening
    stack,           \* the ProcessSource activations of the Load in progress
    shaderCode,      \* Load's local shaderCode, as the current/last Load left it
    requested,       \* names passed to cache->GetFile by the current/last call
    stored,          \* names passed to StoreResourceDependency by the current/last call
    linesRead,       \* number of ReadLine() calls of the current/last call
    ret,             \* the last call that returned, and what it returned
    san              \* a stand-alone SanitateDefines computation

vars == <<useOpenGL, vsSourceCode_, psSourceCode_, vsVariations_, psVariations_,
          variations, memoryUse_, pc, stack, shaderCode, requested, stored,
          linesRead, ret, san>>

shaderVars == <<useOpenGL, vsSourceCode_, psSourceCode_, vsVariations_,
                psVariations_, variations, memoryUse_, pc, stack,
                shaderCode, requested, stored, linesRead, ret>>

(***************************************************************************)
(* Bounds of the model.                                                    *)
(***************************************************************************)
MaxLen == 5      \* longest defines string given to a stand-alone SanitateDefines
MaxDepth == 4    \* deepest nesting of ProcessSource activations explored

(***************************************************************************)
(* Platform constants.                                                     *)
(***************************************************************************)
SizeofShader == 104             \* sizeof(Shader)
SizeofShaderVariation == 72     \* sizeof(ShaderVariation)
NPOS == -1                      \* stands for 0xffffffff, the unsigned value of 0 - 1

(***************************************************************************)
(* String literals of Shader.cpp.                                          *)
(***************************************************************************)
kInclude == <<"#", "i", "n", "c", "l", "u", "d", "e">>
kVoidVS == <<"v", "o", "i", "d", " ", "V", "S", "(">>
kVoidPS == <<"v", "o", "i", "d", " ", "P", "S", "(">>
kVoidMain == <<"v", "o", "i", "d", " ", "m", "a", "i", "n", "(">>
kOpenVoidPS == <<"/", "*", " ", "v", "o", "i", "d", " ", "P", "S", "(">>
kOpenVoidVS == <<"/", "*", " ", "v", "o", "i", "d", " ", "V", "S", "(">>
kClose == <<"*", "/", "\n">>
kCloseVoidMain == <<"*", "/", "\n", "v", "o", "i", "d", " ", "m", "a", "i", "n", "(">>
kCloseVoidPS == <<"*", "/", "\n", "v", "o", "i", "d", " ", "P", "S", "(">>
kAttribute == <<"a", "t", "t", "r", "i", "b", "u", "t", "e", " ">>
kLineAttribute == <<"/", "/", " ", "a", "t", "t", "r", "i", "b", "u", "t", "e", " ">>
kNewline == <<"\n">>
kQuote == <<"\"">>
kUnderscore == <<"_">>

(***************************************************************************)
(* Urho3D String operations used by Shader.cpp.                            *)
(***************************************************************************)
Ascii ==
    <<" ", "!", "\"", "#", "$", "%", "&", "'", "(", ")", "*", "+", ",", "-", ".", "/",
      "0", "1", "2", "3", "4", "5", "6", "7", "8", "9", ":", ";", "<", "=", ">", "?",
      "@", "A", "B", "C", "D", "E", "F", "G", "H", "I", "J", "K", "L", "M", "N", "O",
      "P", "Q", "R", "S", "T", "U", "V", "W", "X", "Y", "Z", "[", "\\", "]", "^", "_",
      "grave", "a", "b", "c", "d", "e", "f", "g", "h", "i", "j", "k", "l", "m", "n", "o",
      "p", "q", "r", "s", "t", "u", "v", "w", "x", "y", "z", "{", "|", "}", "~">>

\* the character code of c ("\n" is 10, the printable characters are 32..126;
\* "grave" holds the place of the grave accent, code 96)
AsciiCode == [c \in {Ascii[i] : i \in 1..Len(Ascii)} |->
                 31 + CHOOSE i \in 1..Len(Ascii) : Ascii[i] = c]

Ord(c) ==
    IF c = "\n" THEN 10 ELSE AsciiCode[c]

\* s.Substring(pos): the rest of s from the 0-based position pos, empty past the end
Substring(s, pos) ==
    IF pos < Len(s) THEN SubSeq(s, pos + 1, Len(s)) ELSE << >>

\* s.StartsWith(p)
StartsWith(s, p) ==
    Len(p) <= Len(s) /\ SubSeq(s, 1, Len(p)) = p

\* s.EndsWith(p)
EndsWith(s, p) ==
    Len(p) <= Len(s) /\ SubSeq(s, Len(s) - Len(p) + 1, Len(s)) = p

\* s.Replace(replaceThis, replaceWith), scanning from the 1-based index pos:
\* occurrences are replaced left to right and the replacement is not rescanned
RECURSIVE ReplaceFrom(_, _, _, _)
ReplaceFrom(s, replaceThis, replaceWith, pos) ==
    IF pos + Len(replaceThis) - 1 > Len(s) THEN s
    ELSE IF SubSeq(s, pos, pos + Len(replaceThis) - 1) = replaceThis
         THEN ReplaceFrom(SubSeq(s, 1, pos - 1) \o replaceWith
                              \o SubSeq(s, pos + Len(replaceThis), Len(s)),
                          replaceThis, replaceWith, pos + Len(replaceWith))
         ELSE ReplaceFrom(s, replaceThis, replaceWith, pos + 1)

\* (the string is taken by value first, then scanned)
Replace(s, replaceThis, replaceWith) ==
    CHOOSE result \in {ReplaceFrom(str, replaceThis, replaceWith, 1) : str \in {s}} : TRUE

\* s.Replaced(c, d) for single characters
ReplacedChar(s, c, d) ==
    [i \in 1..Len(s) |-> IF s[i] = c THEN d ELSE s[i]]

\* s.Trimmed(): without leading and trailing spaces and tabs
RECURSIVE Trimmed(_)
Trimmed(s) ==
    IF s = << >> THEN s
    ELSE IF s[1] \in {" ", "\t"} THEN Trimmed(Tail(s))
    ELSE IF s[Len(s)] \in {" ", "\t"} THEN Trimmed(SubSeq(s, 1, Len(s) - 1))
    ELSE s

\* s.FindLast(c): the last 0-based position of c in s, NPOS if there is none
FindLast(s, c) ==
    IF \E i \in 1..Len(s) : s[i] = c
    THEN (CHOOSE i \in 1..Len(s) : s[i] = c /\ \A j \in (i + 1)..Len(s) : s[j] # c) - 1
    ELSE NPOS

\* SplitPath(fullPath, pathName, fileName, extension)
SplitPath(fullPath) ==
    LET extPos == FindLast(fullPath, ".")
        pathPos == FindLast(fullPath, "/")
        hasExt == extPos # NPOS /\ (pathPos = NPOS \/ extPos > pathPos)
        noExt == IF hasExt THEN SubSeq(fullPath, 1, extPos) ELSE fullPath
        pathPos2 == FindLast(noExt, "/")
    IN  [path |-> IF pathPos2 # NPOS THEN SubSeq(noExt, 1, pathPos2 + 1) ELSE << >>,
         fileName |-> IF pathPos2 # NPOS THEN Substring(noExt, pathPos2 + 1) ELSE noExt,
         extension |-> IF hasExt THEN Substring(fullPath, extPos) ELSE << >>]

\* GetPath(fullPath): the path part of SplitPath
GetPath(fullPath) ==
    SplitPath(fullPath).path

(***************************************************************************)
(* StringHash: the 32-bit SDBM hash of the characters, held as two 16-bit  *)
(* limbs <<high, low>> so that every product stays below 2^31.             *)
(***************************************************************************)
\* SDBMHash(hash, c) = c + (hash << 6) + (hash << 16) - hash  (mod 2^32)
SDBMHash(hash, c) ==
    LET low == c + hash[2] * 63
        high == hash[1] * 63 + hash[2] + (low \div 65536)
    IN  <<high % 65536, low % 65536>>

RECURSIVE CalculateFrom(_, _)
CalculateFrom(hash, str) ==
    IF str = << >> THEN hash
    ELSE CalculateFrom(SDBMHash(hash, Ord(Head(str))), Tail(str))

StringHash(str) ==
    CalculateFrom(<<0, 0>>, str)

(***************************************************************************)
(* Shader::SanitateDefines                                                 *)
(***************************************************************************)
\* unsigned --i
UDec(i) == IF i = 0 THEN NPOS ELSE i - 1

\* unsigned i < n, for a length n
ULess(i, n) == i # NPOS /\ i < n

\* a faulty first loop that skips one leading space at most
FindStartFirstOnly(definesIn, i) ==
    IF ULess(i, Len(definesIn)) /\ definesIn[i + 1] = " "
           /\ ULess(i + 1, Len(definesIn))
    THEN i + 1
    ELSE 0

\* first loop: start = the index of the first non-space character, 0 if none
RECURSIVE FindStart(_, _)
FindStart(definesIn, i) ==
    IF ULess(i, Len(definesIn))
    THEN IF definesIn[i + 1] # " " THEN i ELSE FindStart(definesIn, i + 1)
    ELSE 0

\* second loop: end = one past the last non-space character, Length() if none
RECURSIVE FindEnd(_, _)
FindEnd(definesIn, i) ==
    IF ULess(i, Len(definesIn))
    THEN IF definesIn[i + 1] # " " THEN i + 1 ELSE FindEnd(definesIn, UDec(i))
    ELSE Len(definesIn)

\* a faulty third loop that keeps the first two spaces of each run
RECURSIVE CopyKeepingTwo(_, _, _, _, _)
CopyKeepingTwo(definesIn, i, end, numSpaces, out) ==
    IF i < end
    THEN LET n == IF definesIn[i + 1] = " " THEN numSpaces + 1 ELSE 0
         IN  CopyKeepingTwo(definesIn, i + 1, end, n,
                            IF n <= 2 THEN Append(out, definesIn[i + 1]) ELSE out)
    ELSE out

\* third loop: copy [start, end), keeping only the first space of each run
RECURSIVE CopyCollapsed(_, _, _, _, _)
CopyCollapsed(definesIn, i, end, numSpaces, out) ==
    IF i < end
    THEN LET n == IF definesIn[i + 1] = " " THEN numSpaces + 1 ELSE 0
         IN  CopyCollapsed(definesIn, i + 1, end, n,
                           IF n <= 1 THEN Append(out, definesIn[i + 1]) ELSE out)
    ELSE out

SanitateDefines(definesIn) ==
    LET start == FindStart(definesIn, 0)
        end == FindEnd(definesIn, UDec(Len(definesIn)))
    IN  CopyCollapsed(definesIn, start, end, 0, << >>)

(***************************************************************************)
(* The file provider: the files cache->GetFile() can open, each with the   *)
(* lines ReadLine() returns from it.  "d/m.g" is the shader's own file.    *)
(***************************************************************************)
ShaderName == <<"d", "/", "m", ".", "g">>
NameI == <<"d", "/", "i", ".", "g">>
NameP == <<"d", "/", "p", ".", "g">>
NameN == <<"d", "/", "n", ".", "g">>
NameJ == <<"d", "/", "e", "/", "j", ".", "g">>
NameEK == <<"d", "/", "e", "/", "k", ".", "g">>
NameK == <<"d", "/", "k", ".", "g">>
NameQ == <<"d", "/", "q", ".", "g">>
NameO == <<"d", "/", "o", ".", "g">>
NameC == <<"d", "/", "c", ".", "g">>
NameR == <<"d", "/", "r", ".", "g">>
NameT == <<"d", "/", "t", ".", "g">>
NameU == <<"d", "/", "u", ".", "g">>
NameW == <<"d", "/", "e", "/", "w", ".", "g">>

Files ==
    (ShaderName :> <<<<"#", "i", "n", "c", "l", "u", "d", "e", " ", "\"", "i", ".", "g", "\"">>,
        <<"v", "o", "i", "d", " ", "V", "S", "(">>,
        <<"v", "o", "i", "d", " ", "P", "S", "(">>>>)
    @@
    (NameI :> <<<<"a", "t", "t", "r", "i", "b", "u", "t", "e", " ", "x">>>>)
    @@
    (NameP :> <<<<"v", "o", "i", "d", " ", "P", "S", "(">>,
        <<"v", "o", "i", "d", " ", "V", "S", "(">>>>)
    @@
    (NameN :> <<<<"#", "i", "n", "c", "l", "u", "d", "e", " ", "\"", "e", "/", "j", ".", "g", "\"">>,
        <<"#", "i", "n", "c", "l", "u", "d", "e", " ", "\"", "i", ".", "g", "\"">>,
        <<"v", "o", "i", "d", " ", "V", "S", "(">>,
        <<"v", "o", "i", "d", " ", "P", "S", "(">>>>)
    @@
    (NameJ :> <<<<"#", "i", "n", "c", "l", "u", "d", "e", " ", "\"", "k", ".", "g", "\"">>,
        <<"y">>>>)
    @@
    (NameEK :> <<<<"z">>>>)
    @@
    (NameK :> <<<<"w">>>>)
    @@
    (NameQ :> <<<<"#", "i", "n", "c", "l", "u", "d", "e", " ", "\"", "i", ".", "g", "\"">>,
        <<"#", "i", "n", "c", "l", "u", "d", "e", " ", "\"", "z", "z", "\"">>,
        <<"v">>>>)
    @@
    (NameO :> <<<<"#", "i", "n", "c", "l", "u", "d", "e", " ", "\"", "q", ".", "g", "\"">>,
        <<"u">>>>)
    @@
    (NameC :> <<<<"x">>,
        <<"#", "i", "n", "c", "l", "u", "d", "e", " ", "\"", "c", ".", "g", "\"">>>>)
    @@
    (NameR :> <<<<"#", "i", "n", "c", "l", "u", "d", "e", " ", "\"", "i", ".", "g", "\"">>,
        <<"#", "i", "n", "c", "l", "u", "d", "e", " ", "\"", "i", ".", "g", "\"">>>>)
    @@
    (NameT :> <<<<"#", "i", "n", "c", "l", "u", "d", "e", " ", "<", "i", ".", "g", ">">>>>)
    @@
    (NameU :> <<<<"/", "*", "*", "v", "o", "i", "d", " ", "P", "S", "(">>,
        <<"*", "/">>,
        <<"v", "o", "i", "d", " ", "V", "S", "(">>,
        <<"v", "o", "i", "d", " ", "P", "S", "(">>>>)
    @@
    (NameW :> <<<<"#", "i", "n", "c", "l", "u", "d", "e", " ", "\"", "k", ".", "g", "\"", " ", " ">>,
        <<"t">>>>)

\* a stream opened on the file called name
FileStream(name) == [name |-> name, lines |-> Files[name]]

\* a MemoryBuffer, whose name is empty, holding one include of the shader's file
MemoryBuffer == [name |-> << >>, lines |-> <<<<"#", "i", "n", "c", "l", "u", "d", "e", " ", "\"", "d", "/", "m", ".", "g", "\"">>>>]

\* the defines strings callers pass to GetVariation
DefA == <<"a", "c", "0", "p", "q">>
DefASpaced == <<" ", "a", "c", "0", "p", "q", " ">>
DefB == <<"q", "a", "n", "0", "a">>
DefC == <<"a", " ", " ", "b">>

DefineInputs == {DefA, DefASpaced, DefB, DefC}

\* the streams the resource system and applications hand to Load
CacheSources == {FileStream(ShaderName), FileStream(NameQ)}

AllSources == {FileStream(n) : n \in DOMAIN Files} \cup {MemoryBuffer}

(***************************************************************************)
(* Shader::Load, lines 70-99: the stage split, the release of the existing *)
(* variations and the memory accounting.                                   *)
(***************************************************************************)
\* vsSourceCode_ from the flattened code, lines 73-76 (OpenGL) and 83-85
VertexSource(code, opengl) ==
    IF opengl
    THEN Replace(Replace(code, kVoidVS, kVoidMain), kVoidPS, kOpenVoidPS) \o kClose
    ELSE Replace(code, kVoidPS, kOpenVoidPS) \o kClose

\* psSourceCode_ from the flattened code, lines 78-81 (OpenGL) and 87-89
PixelSource(code, opengl) ==
    IF opengl
    THEN Replace(Replace(Replace(code, kAttribute, kLineAttribute),
                         kVoidVS, kOpenVoidVS),
                 kVoidPS, kCloseVoidMain)
    ELSE Replace(Replace(code, kVoidVS, kOpenVoidVS), kVoidPS, kCloseVoidPS)

\* the handles held by a stage map
Handles(map) == {map[h] : h \in DOMAIN map}

\* a faulty ReleaseAll that releases nothing
ReleaseNone(vars_, vsMap, psMap) ==
    vars_

\* a faulty ReleaseAll that has only the loop over vsVariations_
ReleaseVertexOnly(vars_, vsMap, psMap) ==
    [h \in 1..Len(vars_) |->
        IF h \in Handles(vsMap)
        THEN [vars_[h] EXCEPT !.released = TRUE]
        ELSE vars_[h]]

\* lines 93-96: Release() on every variation of both maps
ReleaseAll(vars_, vsMap, psMap) ==
    [h \in 1..Len(vars_) |->
        IF h \in Handles(vsMap) \cup Handles(psMap)
        THEN [vars_[h] EXCEPT !.released = TRUE]
        ELSE vars_[h]]

\* a faulty LoadedMemoryUse that leaves the existing variations out
LoadedMemoryUseWithoutVariations(vs, ps, vsMap, psMap) ==
    SizeofShader + Len(vs) + Len(ps)

\* lines 98-99: the memory use Load publishes
LoadedMemoryUse(vs, ps, vsMap, psMap) ==
    SizeofShader + Len(vs) + Len(ps)
        + (Cardinality(DOMAIN vsMap) + Cardinality(DOMAIN psMap)) * SizeofShaderVariation

(***************************************************************************)
(* Shader::ProcessSource                                                   *)
(***************************************************************************)
\* a faulty IncludeFileName that resolves against the shader's own directory
IncludeFileNameFromRoot(sourceName, line) ==
    GetPath(ShaderName) \o Trimmed(Replace(Substring(line, 9), kQuote, << >>))

\* line 167: the name of the file an #include line asks for
IncludeFileName(sourceName, line) ==
    GetPath(sourceName) \o Trimmed(Replace(Substring(line, 9), kQuote, << >>))

\* a faulty StoreDependency that stores each name once only
StoreDependencyOnce(log, sourceName) ==
    IF sourceName # ShaderName /\ \A i \in 1..Len(log) : log[i] # sourceName
    THEN Append(log, sourceName)
    ELSE log

\* lines 157-159: the dependencies stored once source has been entered
StoreDependency(log, sourceName) ==
    IF sourceName # ShaderName THEN Append(log, sourceName) ELSE log

\* a new activation of ProcessSource on source, nothing read yet
Activation(source) ==
    [name |-> source.name, lines |-> source.lines, pos |-> 0]

Top == stack[Len(stack)]
IsEof(frame) == frame.pos = Len(frame.lines)
NextLine(frame) == frame.lines[frame.pos + 1]
Advance(stk) == [stk EXCEPT ![Len(stk)].pos = @ + 1]
Pop(stk) == SubSeq(stk, 1, Len(stk) - 1)

(***************************************************************************)
(* What a call returned.                                                   *)
(***************************************************************************)
NoCall ==
    [op |-> "none", source |-> << >>, graphics |-> TRUE, cache |-> TRUE,
     type |-> "none", definesIn |-> << >>, value |-> 0, result |-> FALSE,
     created |-> FALSE]

\* Load(source) returned result, having found the subsystems as g and c say
LoadReturned(sourceName, g, c, result) ==
    [NoCall EXCEPT !.op = "Load", !.source = sourceName, !.graphics = g,
                   !.cache = c, !.result = result]

GetVariationReturned(type, definesIn, handle, created) ==
    [NoCall EXCEPT !.op = "GetVariation", !.type = type, !.definesIn = definesIn,
                   !.value = handle, !.result = TRUE, !.created = created]

SanIdle == [pc |-> "idle", in |-> << >>, out |-> << >>, again |-> << >>]

Init ==
    /\ useOpenGL \in BOOLEAN
    /\ vsSourceCode_ = << >>
    /\ psSourceCode_ = << >>
    /\ vsVariations_ = << >>
    /\ psVariations_ = << >>
    /\ variations = << >>
    /\ memoryUse_ = 0
    /\ pc = "idle"
    /\ stack = << >>
    /\ shaderCode = << >>
    /\ requested = << >>
    /\ stored = << >>
    /\ linesRead = 0
    /\ ret = NoCall
    /\ san = SanIdle

shaderState == <<vsSourceCode_, psSourceCode_, vsVariations_, psVariations_,
                 variations, memoryUse_>>

\* a faulty Load that releases the variations before it looks for the subsystems
LoadWithoutSubsystemReleasing(source, g, c) ==
    /\ pc = "idle"
    /\ ~g \/ ~c
    /\ requested' = << >>
    /\ stored' = << >>
    /\ linesRead' = 0
    /\ shaderCode' = << >>
    /\ ret' = LoadReturned(source.name, g, c, FALSE)
    /\ variations' = [h \in 1..Len(variations) |->
                         [variations[h] EXCEPT !.released = TRUE]]
    /\ UNCHANGED <<useOpenGL, vsSourceCode_, psSourceCode_, vsVariations_,
                   psVariations_, memoryUse_, pc, stack, san>>

(***************************************************************************)
(* Load(source) without the Graphics subsystem (lines 61-63) or without    *)
(* the ResourceCache subsystem (lines 153-155, 67-68): returns false.      *)
(***************************************************************************)
LoadWithoutSubsystem(source, g, c) ==
    /\ pc = "idle"
    /\ ~g \/ ~c
    /\ requested' = << >>
    /\ stored' = << >>
    /\ linesRead' = 0
    /\ shaderCode' = << >>
    /\ ret' = LoadReturned(source.name, g, c, FALSE)
    /\ UNCHANGED <<useOpenGL, shaderState, pc, stack, san>>

(***************************************************************************)
(* Load(source) with both subsystems: lines 57-67 and the entry of the     *)
(* root ProcessSource, lines 151-159.                                      *)
(***************************************************************************)
LoadBegin(source) ==
    /\ pc = "idle"
    /\ requested' = << >>
    /\ linesRead' = 0
    /\ shaderCode' = << >>
    /\ stored' = StoreDependency(<< >>, source.name)
    /\ stack' = <<Activation(source)>>
    /\ pc' = "ProcessSource"
    /\ ret' = NoCall
    /\ UNCHANGED <<useOpenGL, shaderState, san>>

(***************************************************************************)
(* One iteration of the loop of ProcessSource on a line that is not an     *)
(* #include: lines 161-165 and 177-181.                                    *)
(***************************************************************************)
CopyLine ==
    /\ pc = "ProcessSource"
    /\ ~IsEof(Top)
    /\ ~StartsWith(NextLine(Top), kInclude)
    /\ shaderCode' = shaderCode \o NextLine(Top) \o kNewline
    /\ stack' = Advance(stack)
    /\ linesRead' = linesRead + 1
    /\ UNCHANGED <<useOpenGL, shaderState, pc, requested, stored,
                   ret, san>>

\* a faulty EnterInclude with an include guard: a file that is being flattened
\* already is not entered again, its #include line is skipped
EnterIncludeOnce ==
    /\ pc = "ProcessSource"
    /\ ~IsEof(Top)
    /\ StartsWith(NextLine(Top), kInclude)
    /\ Len(stack) < MaxDepth
    /\ LET includeFileName == IncludeFileName(Top.name, NextLine(Top))
           entered == \E i \in 1..Len(stack) : stack[i].name = includeFileName
       IN  /\ includeFileName \in DOMAIN Files
           /\ requested' = Append(requested, includeFileName)
           /\ stored' = IF entered THEN stored
                        ELSE StoreDependency(stored, includeFileName)
           /\ stack' = IF entered THEN Advance(stack)
                       ELSE Append(Advance(stack), Activation(FileStream(includeFileName)))
    /\ linesRead' = linesRead + 1
    /\ UNCHANGED <<useOpenGL, shaderState, pc, shaderCode, ret, san>>

(***************************************************************************)
(* An #include line whose file opens: lines 161-169 and the entry of the   *)
(* recursive ProcessSource, lines 151-159.                                 *)
(***************************************************************************)
EnterInclude ==
    /\ pc = "ProcessSource"
    /\ ~IsEof(Top)
    /\ StartsWith(NextLine(Top), kInclude)
    /\ Len(stack) < MaxDepth
    /\ LET includeFileName == IncludeFileName(Top.name, NextLine(Top))
       IN  /\ includeFileName \in DOMAIN Files
           /\ requested' = Append(requested, includeFileName)
           /\ stored' = StoreDependency(stored, includeFileName)
           /\ stack' = Append(Advance(stack), Activation(FileStream(includeFileName)))
    /\ linesRead' = linesRead + 1
    /\ UNCHANGED <<useOpenGL, shaderState, pc, shaderCode, ret, san>>

\* a faulty IncludeNotFound that publishes what was flattened before the failure
IncludeNotFoundPublishing ==
    /\ pc = "ProcessSource"
    /\ ~IsEof(Top)
    /\ StartsWith(NextLine(Top), kInclude)
    /\ LET includeFileName == IncludeFileName(Top.name, NextLine(Top))
       IN  /\ includeFileName \notin DOMAIN Files
           /\ requested' = Append(requested, includeFileName)
    /\ linesRead' = linesRead + 1
    /\ ret' = LoadReturned(stack[1].name, TRUE, TRUE, FALSE)
    /\ pc' = "idle"
    /\ stack' = << >>
    /\ vsSourceCode_' = VertexSource(shaderCode, useOpenGL)
    /\ psSourceCode_' = PixelSource(shaderCode, useOpenGL)
    /\ UNCHANGED <<useOpenGL, vsVariations_, psVariations_, variations, memoryUse_,
                   shaderCode, stored, san>>

\* a faulty IncludeNotFound that takes back the dependencies stored by the Load
IncludeNotFoundRollingBack ==
    /\ pc = "ProcessSource"
    /\ ~IsEof(Top)
    /\ StartsWith(NextLine(Top), kInclude)
    /\ LET includeFileName == IncludeFileName(Top.name, NextLine(Top))
       IN  /\ includeFileName \notin DOMAIN Files
           /\ requested' = Append(requested, includeFileName)
    /\ linesRead' = linesRead + 1
    /\ ret' = LoadReturned(stack[1].name, TRUE, TRUE, FALSE)
    /\ pc' = "idle"
    /\ stack' = << >>
    /\ stored' = << >>
    /\ UNCHANGED <<useOpenGL, shaderState, shaderCode, san>>

\* a faulty IncludeNotFound that skips the #include line and goes on
IncludeNotFoundSkipping ==
    /\ pc = "ProcessSource"
    /\ ~IsEof(Top)
    /\ StartsWith(NextLine(Top), kInclude)
    /\ LET includeFileName == IncludeFileName(Top.name, NextLine(Top))
       IN  /\ includeFileName \notin DOMAIN Files
           /\ requested' = Append(requested, includeFileName)
    /\ linesRead' = linesRead + 1
    /\ stack' = Advance(stack)
    /\ UNCHANGED <<useOpenGL, shaderState, pc, shaderCode, stored, ret, san>>

(***************************************************************************)
(* An #include line whose file does not open: lines 161-171; every         *)
(* enclosing ProcessSource returns false (174-175) and so does Load        *)
(* (67-68).                                                                *)
(***************************************************************************)
IncludeNotFound ==
    /\ pc = "ProcessSource"
    /\ ~IsEof(Top)
    /\ StartsWith(NextLine(Top), kInclude)
    /\ LET includeFileName == IncludeFileName(Top.name, NextLine(Top))
       IN  /\ includeFileName \notin DOMAIN Files
           /\ requested' = Append(requested, includeFileName)
    /\ linesRead' = linesRead + 1
    /\ ret' = LoadReturned(stack[1].name, TRUE, TRUE, FALSE)
    /\ pc' = "idle"
    /\ stack' = << >>
    /\ UNCHANGED <<useOpenGL, shaderState, shaderCode, stored, san>>

\* a faulty LeaveInclude that appends no empty line after the stream
LeaveIncludeWithoutSeparator ==
    /\ pc = "ProcessSource"
    /\ IsEof(Top)
    /\ Len(stack) > 1
    /\ stack' = Pop(stack)
    /\ UNCHANGED <<useOpenGL, shaderState, pc, shaderCode, requested, stored,
                   linesRead, ret, san>>

(***************************************************************************)
(* The end of an included stream: lines 161 and 184-187, back in the       *)
(* including ProcessSource (line 174).                                     *)
(***************************************************************************)
LeaveInclude ==
    /\ pc = "ProcessSource"
    /\ IsEof(Top)
    /\ Len(stack) > 1
    /\ shaderCode' = shaderCode \o kNewline
    /\ stack' = Pop(stack)
    /\ UNCHANGED <<useOpenGL, shaderState, pc, requested, stored,
                   linesRead, ret, san>>

(***************************************************************************)
(* The end of the root stream: lines 161 and 184-187, then the rest of     *)
(* Load, lines 70-101.                                                     *)
(***************************************************************************)
LoadComplete ==
    /\ pc = "ProcessSource"
    /\ IsEof(Top)
    /\ Len(stack) = 1
    /\ LET code == shaderCode \o kNewline
           vs == VertexSource(code, useOpenGL)
           ps == PixelSource(code, useOpenGL)
       IN  /\ shaderCode' = code
           /\ vsSourceCode_' = vs
           /\ psSourceCode_' = ps
           /\ variations' = ReleaseAll(variations, vsVariations_, psVariations_)
           /\ memoryUse_' = LoadedMemoryUse(vs, ps, vsVariations_, psVariations_)
    /\ ret' = LoadReturned(stack[1].name, TRUE, TRUE, TRUE)
    /\ pc' = "idle"
    /\ stack' = << >>
    /\ UNCHANGED <<useOpenGL, vsVariations_, psVariations_,
                   requested, stored, linesRead, san>>

(***************************************************************************)
(* Shader::GetVariation                                                    *)
(***************************************************************************)
\* lines 115-122 (135-142): the variation created for type and defines
NewVariation(type, defines) ==
    LET split == SplitPath(ShaderName)
        fullName == split.path \o split.fileName \o kUnderscore
                        \o ReplacedChar(defines, " ", "_")
    IN  [type |-> type,
         name |-> IF EndsWith(fullName, kUnderscore)
                  THEN SubSeq(fullName, 1, Len(fullName) - 1)
                  ELSE fullName,
         defines |-> defines,
         released |-> FALSE]

\* a faulty DefinesHash that hashes the defines as given, not sanitated
DefinesHashUnsanitated(definesIn) ==
    StringHash(definesIn)

\* lines 106-107: the key GetVariation looks definesIn up by
DefinesHash(definesIn) ==
    StringHash(SanitateDefines(definesIn))

\* a faulty GetVariation that compiles the variation it finds, clearing its
\* released status
GetVariationCompiling(type, definesIn) ==
    /\ pc = "idle"
    /\ LET defines == SanitateDefines(definesIn)
           definesHash == DefinesHash(definesIn)
           map == IF type = "VS" THEN vsVariations_ ELSE psVariations_
           found == definesHash \in DOMAIN map
           handle == IF found THEN map[definesHash] ELSE Len(variations) + 1
           inserted == map @@ (definesHash :> handle)
       IN  /\ variations' = IF found
                            THEN [variations EXCEPT ![handle].released = FALSE]
                            ELSE Append(variations, NewVariation(type, defines))
           /\ vsVariations_' = IF type = "VS" THEN inserted ELSE vsVariations_
           /\ psVariations_' = IF type = "VS" THEN psVariations_ ELSE inserted
           /\ memoryUse_' = IF found THEN memoryUse_
                            ELSE memoryUse_ + SizeofShaderVariation
           /\ ret' = GetVariationReturned(type, definesIn, handle, ~found)
    /\ requested' = << >>
    /\ stored' = << >>
    /\ linesRead' = 0
    /\ shaderCode' = << >>
    /\ UNCHANGED <<useOpenGL, vsSourceCode_, psSourceCode_, pc, stack, san>>

GetVariation(type, definesIn) ==
    /\ pc = "idle"
    /\ LET defines == SanitateDefines(definesIn)
           definesHash == DefinesHash(definesIn)
           map == IF type = "VS" THEN vsVariations_ ELSE psVariations_
           found == definesHash \in DOMAIN map
           handle == IF found THEN map[definesHash] ELSE Len(variations) + 1
           inserted == map @@ (definesHash :> handle)
       IN  /\ variations' = IF found THEN variations
                            ELSE Append(variations, NewVariation(type, defines))
           /\ vsVariations_' = IF type = "VS" THEN inserted ELSE vsVariations_
           /\ psVariations_' = IF type = "VS" THEN psVariations_ ELSE inserted
           /\ memoryUse_' = IF found THEN memoryUse_
                            ELSE memoryUse_ + SizeofShaderVariation
           /\ ret' = GetVariationReturned(type, definesIn, handle, ~found)
    /\ requested' = << >>
    /\ stored' = << >>
    /\ linesRead' = 0
    /\ shaderCode' = << >>
    /\ UNCHANGED <<useOpenGL, vsSourceCode_, psSourceCode_, pc, stack, san>>

(***************************************************************************)
(* The shader with the resource system's streams and its callers.          *)
(***************************************************************************)
CallLoadWithoutSubsystem ==
    \E source \in CacheSources, g \in BOOLEAN, c \in BOOLEAN :
        LoadWithoutSubsystem(source, g, c)

CallLoad ==
    \E source \in CacheSources : LoadBegin(source)

CallGetVariation ==
    \E type \in {"VS", "PS"}, definesIn \in DefineInputs : GetVariation(type, definesIn)

Next ==
    \/ CallLoadWithoutSubsystem
    \/ CallLoad
    \/ CopyLine
    \/ EnterInclude
    \/ IncludeNotFound
    \/ LeaveInclude
    \/ LoadComplete
    \/ CallGetVariation

Spec == Init /\ [][Next]_vars

(***************************************************************************)
(* Load alone, on every stream of the file provider and a memory buffer.   *)
(***************************************************************************)
LoadAnyWithoutSubsystem ==
    \E source \in AllSources, g \in BOOLEAN, c \in BOOLEAN :
        LoadWithoutSubsystem(source, g, c)

LoadAny ==
    \E source \in AllSources : LoadBegin(source)

NextLoad ==
    \/ LoadAnyWithoutSubsystem
    \/ LoadAny
    \/ CopyLine
    \/ EnterInclude
    \/ IncludeNotFound
    \/ LeaveInclude
    \/ LoadComplete

SpecLoad == Init /\ [][NextLoad]_vars

(***************************************************************************)
(* GetVariation alone, with defines that are empty, that hold a run of     *)
(* spaces, and that end with an underscore.                                *)
(***************************************************************************)
DefEmpty == << >>
DefTrailing == <<"a", "_">>

NameInputs == {DefEmpty, DefTrailing, DefC}

CallGetVariationNamed ==
    \E type \in {"VS", "PS"}, definesIn \in NameInputs : GetVariation(type, definesIn)

NextVariation == CallGetVariationNamed

SpecVariation == Init /\ [][NextVariation]_vars

(***************************************************************************)
(* Load runs to its return without yielding: once begun, the next step of  *)
(* ProcessSource or of the rest of Load is always taken.                   *)
(***************************************************************************)
LoadStep ==
    \/ CopyLine
    \/ EnterInclude
    \/ IncludeNotFound
    \/ LeaveInclude
    \/ LoadComplete

SpecLoadFair == SpecLoad /\ WF_vars(LoadStep)

(***************************************************************************)
(* SanitateDefines alone, on every string of at most MaxLen characters     *)
(* over a space and two letters, applied once and then to its own result.  *)
(***************************************************************************)
RECURSIVE StringsOfLen(_)
StringsOfLen(n) ==
    IF n = 0 THEN {<< >>}
    ELSE {Append(s, c) : s \in StringsOfLen(n - 1), c \in {" ", "a", "b"}}

SanitateInputs == UNION {StringsOfLen(n) : n \in 0..MaxLen}

InitSanitate ==
    /\ Init
    /\ useOpenGL = TRUE

SanitateCall ==
    /\ san.pc = "idle"
    /\ \E definesIn \in SanitateInputs :
        san' = [pc |-> "called", in |-> definesIn,
                out |-> SanitateDefines(definesIn), again |-> << >>]
    /\ UNCHANGED shaderVars

SanitateAgain ==
    /\ san.pc = "called"
    /\ san' = [san EXCEPT !.pc = "again", !.again = SanitateDefines(san.out)]
    /\ UNCHANGED shaderVars

NextSanitate ==
    \/ SanitateCall
    \/ SanitateAgain

SpecSanitate == InitSanitate /\ [][NextSanitate]_vars

(***************************************************************************)
(* Properties.                                                             *)
(***************************************************************************)
\* the map of a stage
StageMap(type) == IF type = "VS" THEN vsVariations_ ELSE psVariations_

\* the map of a stage after the step
StageMapNext(type) == IF type = "VS" THEN vsVariations_' ELSE psVariations_'

\* a successful Load has published stage sources (vsSourceCode_ then ends in "*/\n")
Loaded == vsSourceCode_ # << >>

\* the handles of the variations of a stage
VariationsOf(type) == {h \in 1..Len(variations) : variations[h].type = type}

\* C1 as stated: the handle GetVariation(s, d) returns is the one variation whose
\* stage is s and whose defines are SanitateDefines(d), so that two calls return the
\* same handle if and only if their stages and their sanitated defines are equal.
C1_SameHandleIffSameDefines ==
    ret.op = "GetVariation" =>
        /\ ret.value \in 1..Len(variations)
        /\ variations[ret.value].type = ret.type
        /\ variations[ret.value].defines = SanitateDefines(ret.definesIn)
        /\ \A h \in 1..Len(variations) :
              (/\ variations[h].type = ret.type
               /\ variations[h].defines = SanitateDefines(ret.definesIn)) => h = ret.value

\* C1, amended: the handle GetVariation(s, d) returns is the one variation whose stage
\* is s and whose defines have the StringHash of SanitateDefines(d); stage and defines
\* of a variation never change, so two calls return the same handle if and only if
\* their stages are equal and their sanitated defines have equal hashes (equal
\* sanitated defines always do).  Each stage map holds one handle per key and each
\* handle once, a lookup that hits creates nothing, and a VS and a PS call never
\* return the same handle.
C1_SameHandleIffSameHash ==
    [][/\ \A h \in 1..Len(variations) :
              /\ h <= Len(variations')
              /\ variations'[h].type = variations[h].type
              /\ variations'[h].defines = variations[h].defines
       /\ \A h \in 1..Len(variations') :
              /\ StringHash(variations'[h].defines)
                    \in DOMAIN StageMapNext(variations'[h].type)
              /\ StageMapNext(variations'[h].type)[StringHash(variations'[h].defines)] = h
       /\ Handles(vsVariations_') \cap Handles(psVariations_') = {}
       /\ Cardinality(DOMAIN vsVariations_') + Cardinality(DOMAIN psVariations_')
              = Len(variations')
       /\ ret'.op = "GetVariation" =>
              LET h == ret'.value
                  same(g) == /\ variations[g].type = ret'.type
                             /\ StringHash(variations[g].defines)
                                    = StringHash(SanitateDefines(ret'.definesIn))
                  existing == {g \in 1..Len(variations) : same(g)}
              IN  /\ h \in 1..Len(variations')
                  /\ variations'[h].type = ret'.type
                  /\ StringHash(variations'[h].defines)
                         = StringHash(SanitateDefines(ret'.definesIn))
                  /\ SanitateDefines(ret'.definesIn) \in
                         {variations[g].defines : g \in VariationsOf(ret'.type)}
                             => variations'[h].defines = SanitateDefines(ret'.definesIn)
                  /\ existing # {} => /\ existing = {h}
                                      /\ ~ret'.created
                                      /\ variations' = variations
                                      /\ vsVariations_' = vsVariations_
                                      /\ psVariations_' = psVariations_
                  /\ existing = {} => /\ ret'.created
                                      /\ h = Len(variations) + 1
                                      /\ Len(variations') = Len(variations) + 1
      ]_vars

\* C1's case: a call whose defines differ from the stored ones only in spaces hit a
\* variation, while both stages hold variations
C1_Witness ==
    /\ ret.op = "GetVariation"
    /\ ~ret.created
    /\ ret.definesIn # variations[ret.value].defines
    /\ SanitateDefines(ret.definesIn) = variations[ret.value].defines
    /\ DOMAIN vsVariations_ # {}
    /\ DOMAIN psVariations_ # {}

\* C2: a successful Load leaves every existing variation released and both stage maps
\* as they were; a later GetVariation with the stage and (up to sanitation) the
\* defines of an existing variation returns that variation and creates nothing; no
\* step removes an entry of a stage map.
C2_ReloadInvalidation ==
    [][/\ (ret'.op = "Load" /\ ret'.result /\ pc = "ProcessSource") =>
              /\ Len(variations') = Len(variations)
              /\ \A h \in 1..Len(variations) :
                    /\ variations'[h].released
                    /\ h \in Handles(StageMapNext(variations[h].type))
              /\ vsVariations_' = vsVariations_
              /\ psVariations_' = psVariations_
       /\ (ret'.op = "GetVariation" /\ pc = "idle") =>
              \A h \in 1..Len(variations) :
                  (/\ variations[h].type = ret'.type
                   /\ variations[h].defines = SanitateDefines(ret'.definesIn))
                      => /\ ret'.value = h
                         /\ ~ret'.created
                         /\ Len(variations') = Len(variations)
       /\ DOMAIN vsVariations_ \subseteq DOMAIN vsVariations_'
       /\ DOMAIN psVariations_ \subseteq DOMAIN psVariations_'
       /\ \A k \in DOMAIN vsVariations_ : vsVariations_'[k] = vsVariations_[k]
       /\ \A k \in DOMAIN psVariations_ : psVariations_'[k] = psVariations_[k]
      ]_vars

\* C2's case: after a successful Load, a GetVariation with differently spaced defines
\* returned a released variation of the pixel stage
C2_Witness ==
    /\ Loaded
    /\ ret.op = "GetVariation"
    /\ ret.type = "PS"
    /\ ~ret.created
    /\ variations[ret.value].released
    /\ ret.definesIn # variations[ret.value].defines

\* C3: once a Load has succeeded, memoryUse_ = sizeof(Shader) + the lengths of both
\* stage sources + sizeof(ShaderVariation) for each variation of each stage; a
\* GetVariation that creates a variation raises memoryUse_ by sizeof(ShaderVariation)
\* and one that hits leaves it unchanged.
C3_MemoryAccounting ==
    /\ [](Loaded =>
            memoryUse_ = SizeofShader + Len(vsSourceCode_) + Len(psSourceCode_)
                + (Cardinality(VariationsOf("VS")) + Cardinality(VariationsOf("PS")))
                      * SizeofShaderVariation)
    /\ [][(ret'.op = "GetVariation" /\ pc = "idle") =>
              memoryUse_' = memoryUse_
                  + (IF Len(variations') > Len(variations)
                     THEN SizeofShaderVariation ELSE 0)]_vars

\* C3's case: a failed Load returned after a successful one, with variations created
\* before the successful Load (released) and after it (not released)
C3_Witness ==
    /\ Loaded
    /\ ret.op = "Load"
    /\ ~ret.result
    /\ \E h \in 1..Len(variations) : variations[h].released
    /\ \E h \in 1..Len(variations) : ~variations[h].released

\* C4: no step of a Load that ends on an include file that cannot be opened changes
\* vsSourceCode_, psSourceCode_ or memoryUse_: not the steps that flatten, and not the
\* step on which Load returns false.
C4_MissingIncludePublishesNothing ==
    [][(\/ pc' = "ProcessSource"
        \/ (pc = "ProcessSource" /\ ret'.op = "Load" /\ ~ret'.result))
           => /\ vsSourceCode_' = vsSourceCode_
              /\ psSourceCode_' = psSourceCode_
              /\ memoryUse_' = memoryUse_]_vars

\* C4's case: Load returned false on an include missing in an included file, after
\* another include was flattened, with stage sources of an earlier Load in place
C4_Witness ==
    /\ ret.op = "Load"
    /\ ~ret.result
    /\ ret.graphics
    /\ ret.cache
    /\ Len(requested) >= 3
    /\ requested[Len(requested)] \notin DOMAIN Files
    /\ shaderCode # << >>
    /\ Loaded

\* s has a character that is not a space
HasNonSpace(s) == \E i \in 1..Len(s) : s[i] # " "

\* C5 as stated: SanitateDefines of a string of spaces only is the empty string.
C5_AllSpacesGiveEmpty ==
    (san.pc # "idle" /\ ~HasNonSpace(san.in)) => san.out = << >>

\* the length of the run of non-space characters s starts with
TokenLen(s) ==
    IF \E i \in 1..Len(s) : s[i] = " "
    THEN (CHOOSE i \in 1..Len(s) : s[i] = " " /\ \A j \in 1..(i - 1) : s[j] # " ") - 1
    ELSE Len(s)

\* the maximal runs of non-space characters of s, in their order in s
RECURSIVE Tokens(_)
Tokens(s) ==
    IF s = << >> THEN << >>
    ELSE IF Head(s) = " " THEN Tokens(Tail(s))
    ELSE <<SubSeq(s, 1, TokenLen(s))>> \o Tokens(SubSeq(s, TokenLen(s) + 1, Len(s)))

\* the tokens ts with one space between each two
RECURSIVE Joined(_)
Joined(ts) ==
    IF ts = << >> THEN << >>
    ELSE IF Len(ts) = 1 THEN ts[1]
    ELSE ts[1] \o <<" ">> \o Joined(Tail(ts))

\* C6: for an input with a non-space character, SanitateDefines returns the input's
\* tokens in their order joined by one space each: no space first or last, no two
\* spaces in a row, and the tokens of the result are the tokens of the input.
C6_TokensJoinedBySingleSpaces ==
    (san.pc # "idle" /\ HasNonSpace(san.in)) =>
        /\ san.out = Joined(Tokens(san.in))
        /\ san.out[1] # " "
        /\ san.out[Len(san.out)] # " "
        /\ \A i \in 1..(Len(san.out) - 1) : ~(san.out[i] = " " /\ san.out[i + 1] = " ")
        /\ Tokens(san.out) = Tokens(san.in)

\* C6's case: an input with leading spaces, a run of spaces between two different
\* tokens and a trailing space was sanitated, and kept the order of its tokens
C6_Witness ==
    /\ san.pc # "idle"
    /\ Len(san.in) >= 5
    /\ san.in[1] = " "
    /\ san.in[Len(san.in)] = " "
    /\ Tokens(san.in) = << <<"b">>, <<"a">> >>
    /\ san.out = <<"b", " ", "a">>

\* C7: SanitateDefines applied to its own result returns that result.
C7_Idempotent ==
    san.pc = "again" => san.again = san.out

\* C7's case: the second application was made on the result of an input that the
\* first application changed
C7_Witness ==
    /\ san.pc = "again"
    /\ san.out # san.in
    /\ san.out # << >>
    /\ san.again = san.out

\* the positions at which marker occurs in text
Occurrences(text, marker) ==
    {p \in 1..(Len(text) - Len(marker) + 1) :
        SubSeq(text, p, p + Len(marker) - 1) = marker}

\* for each character of text from position i on, whether it lies inside a comment
\* ("//" to the end of the line, "/*" to the next "*/"), mode being the lexer's
\* state before position i: "code", "line" or "block"
RECURSIVE CommentMaskFrom(_, _, _)
CommentMaskFrom(text, i, mode) ==
    IF i > Len(text) THEN << >>
    ELSE LET two == IF i < Len(text) THEN <<text[i], text[i + 1]>> ELSE <<text[i]>>
         IN  CASE mode = "code" /\ two = <<"/", "/">> ->
                      <<TRUE, TRUE>> \o CommentMaskFrom(text, i + 2, "line")
               [] mode = "code" /\ two = <<"/", "*">> ->
                      <<TRUE, TRUE>> \o CommentMaskFrom(text, i + 2, "block")
               [] mode = "code" /\ two \notin {<<"/", "/">>, <<"/", "*">>} ->
                      <<FALSE>> \o CommentMaskFrom(text, i + 1, "code")
               [] mode = "line" /\ text[i] = "\n" ->
                      <<FALSE>> \o CommentMaskFrom(text, i + 1, "code")
               [] mode = "line" /\ text[i] # "\n" ->
                      <<TRUE>> \o CommentMaskFrom(text, i + 1, "line")
               [] mode = "block" /\ two = <<"*", "/">> ->
                      <<TRUE, TRUE>> \o CommentMaskFrom(text, i + 2, "code")
               [] mode = "block" /\ two # <<"*", "/">> ->
                      <<TRUE>> \o CommentMaskFrom(text, i + 1, "block")

\* the occurrences of marker in text that do not lie inside a comment
ActiveOccurrences(text, marker) ==
    LET mask == CommentMaskFrom(text, 1, "code")
    IN  {p \in Occurrences(text, marker) : ~mask[p]}

\* C8 as stated: after a successful Load, in the OpenGL build, of a source with both
\* markers, every "void PS(" of the vertex source and every "void VS(" of the pixel
\* source lies inside a comment.
C8_StageIsolation ==
    (/\ useOpenGL
     /\ ret.op = "Load"
     /\ ret.result
     /\ Occurrences(shaderCode, kVoidVS) # {}
     /\ Occurrences(shaderCode, kVoidPS) # {})
        => /\ ActiveOccurrences(vsSourceCode_, kVoidPS) = {}
           /\ ActiveOccurrences(psSourceCode_, kVoidVS) = {}

\* the stream Load was given, from the name ret holds
SourceNamed(name) ==
    IF name = MemoryBuffer.name THEN MemoryBuffer ELSE FileStream(name)

\* the text the lines of source from the k-th on flatten to: a line and a newline, an
\* included stream's text in place of its #include line, one newline after the last
RECURSIVE FlattenedFrom(_, _)
FlattenedFrom(source, k) ==
    IF k > Len(source.lines) THEN kNewline
    ELSE LET line == source.lines[k]
         IN  (IF StartsWith(line, kInclude)
              THEN FlattenedFrom(FileStream(IncludeFileName(source.name, line)), 1)
              ELSE line \o kNewline)
                 \o FlattenedFrom(source, k + 1)

\* the names of the streams included from the k-th line of source on, in the order
\* in which they are entered
RECURSIVE IncludedFrom(_, _)
IncludedFrom(source, k) ==
    IF k > Len(source.lines) THEN << >>
    ELSE LET line == source.lines[k]
             name == IncludeFileName(source.name, line)
         IN  (IF StartsWith(line, kInclude)
              THEN <<name>> \o IncludedFrom(FileStream(name), 1)
              ELSE << >>)
                 \o IncludedFrom(source, k + 1)

\* the dependencies stored for the included streams: all but the root's own
StoredForIncludes ==
    IF ret.source # ShaderName THEN Tail(stored) ELSE stored

\* C9 as stated: a successful Load has flattened the root stream line by line, and has
\* stored a dependency for each included stream.
C9_FlattenedAndEveryIncludeStored ==
    (ret.op = "Load" /\ ret.result) =>
        /\ shaderCode = FlattenedFrom(SourceNamed(ret.source), 1)
        /\ StoredForIncludes = IncludedFrom(SourceNamed(ret.source), 1)

\* C9, amended: a successful Load has flattened the root stream line by line, and has
\* stored a dependency for each included stream whose name is not the shader's name.
C9_FlattenedAndOtherIncludesStored ==
    (ret.op = "Load" /\ ret.result) =>
        /\ shaderCode = FlattenedFrom(SourceNamed(ret.source), 1)
        /\ StoredForIncludes
               = SelectSeq(IncludedFrom(SourceNamed(ret.source), 1),
                           LAMBDA name : name # ShaderName)

\* C9's case: a Load succeeded on a stream with an include that includes another file
\* from its own directory, followed by a second include
C9_Witness ==
    /\ ret.op = "Load"
    /\ ret.result
    /\ ret.source = NameN
    /\ StoredForIncludes = <<NameJ, NameEK, NameI>>
    /\ Len(shaderCode) > Len(Files[NameN][3]) + Len(Files[NameN][4]) + 3

\* C10: a Load that finds no Graphics subsystem, or no ResourceCache subsystem,
\* returns false, having read no line, asked for no file and stored no dependency,
\* and leaves the stage sources, both maps, every variation and memoryUse_ unchanged.
C10_LoadWithoutSubsystemFails ==
    [][(ret'.op = "Load" /\ pc = "idle" /\ pc' = "idle"
            /\ (~ret'.graphics \/ ~ret'.cache) /\ ret' # ret) =>
           /\ ~ret'.result
           /\ linesRead' = 0
           /\ requested' = << >>
           /\ stored' = << >>
           /\ UNCHANGED shaderState]_vars

\* C10's case: Load found no Graphics subsystem while a Load had succeeded before and
\* a variation not released since was in a map
C10_Witness ==
    /\ ret.op = "Load"
    /\ ~ret.graphics
    /\ ret.cache
    /\ Loaded
    /\ \E h \in 1..Len(variations) : ~variations[h].released

\* the map of the other stage
OtherStageMap(type) == IF type = "VS" THEN psVariations_ ELSE vsVariations_

\* the map of the other stage after the step
OtherStageMapNext(type) == IF type = "VS" THEN psVariations_' ELSE vsVariations_'

\* C11: every GetVariation, before any Load, after a successful and after a failed
\* one, returns a handle of a variation of the stage asked for, leaves both stage sources, every existing variation (its released status
\* too) and the other stage's map as they were, and stores no dependency.
C11_GetVariationOnlyAllocates ==
    [][(ret'.op = "GetVariation" /\ pc = "idle") =>
           /\ ret'.result
           /\ ret'.value \in 1..Len(variations')
           /\ variations'[ret'.value].type = ret'.type
           /\ StageMapNext(ret'.type)[StringHash(SanitateDefines(ret'.definesIn))]
                     = ret'.value
           /\ vsSourceCode_' = vsSourceCode_
           /\ psSourceCode_' = psSourceCode_
           /\ \A h \in 1..Len(variations) : variations'[h] = variations[h]
           /\ OtherStageMapNext(ret'.type) = OtherStageMap(ret'.type)
           /\ stored' = << >>
           /\ requested' = << >>
           /\ pc' = "idle"]_vars

\* C11's case: after a successful Load, GetVariation returned a released variation of
\* the vertex stage while the pixel stage had variations and one variation, created
\* since the Load, was not released
C11_Witness ==
    /\ Loaded
    /\ ret.op = "GetVariation"
    /\ ret.type = "VS"
    /\ ~ret.created
    /\ variations[ret.value].released
    /\ DOMAIN psVariations_ # {}
    /\ \E h \in 1..Len(variations) : ~variations[h].released

\* the entry point of a stage as Load leaves it in that stage's source: lines 74 and
\* 81 rename it to main in the OpenGL build
EntryPoint(type) ==
    IF useOpenGL THEN kVoidMain ELSE IF type = "VS" THEN kVoidVS ELSE kVoidPS

\* C12 as stated, for the sources with one "void VS(" and one "void PS(": after a
\* successful Load the vertex source has exactly one entry point outside comments,
\* the vertex stage's, and the pixel source exactly one, the pixel stage's.
C12_OneActiveEntryPointPerStage ==
    (/\ ret.op = "Load"
     /\ ret.result
     /\ Cardinality(Occurrences(shaderCode, kVoidVS)) = 1
     /\ Cardinality(Occurrences(shaderCode, kVoidPS)) = 1)
        => /\ Cardinality(ActiveOccurrences(vsSourceCode_, EntryPoint("VS"))) = 1
           /\ ActiveOccurrences(vsSourceCode_, kVoidPS) = {}
           /\ Cardinality(ActiveOccurrences(psSourceCode_, EntryPoint("PS"))) = 1
           /\ ActiveOccurrences(psSourceCode_, kVoidVS) = {}

\* the shader's name without its extension: path and file name
ShaderBaseName ==
    SplitPath(ShaderName).path \o SplitPath(ShaderName).fileName

\* C13 as stated: the variation GetVariation has created holds the sanitated defines,
\* and every variation is named by the shader's path and file name, then "_" and its
\* defines with "_" for each space if the defines are not empty; the name is the
\* shader's path and file name alone exactly when the defines are empty.
C13_NameFromDefines ==
    /\ (ret.op = "GetVariation" /\ ret.created) =>
           variations[ret.value].defines = SanitateDefines(ret.definesIn)
    /\ \A h \in 1..Len(variations) :
           /\ variations[h].defines # << >> =>
                  variations[h].name
                      = ShaderBaseName \o kUnderscore
                            \o ReplacedChar(variations[h].defines, " ", "_")
           /\ variations[h].name = ShaderBaseName <=> variations[h].defines = << >>

\* a Load is in progress, or was the last call and got as far as ProcessSource's loop
InLoad ==
    \/ pc = "ProcessSource"
    \/ (ret.op = "Load" /\ ret.graphics /\ ret.cache)

\* the name of the stream the current/last Load was given
RootName ==
    IF pc = "ProcessSource" THEN stack[1].name ELSE ret.source

\* the names of the streams the current/last Load has entered, in order: the root and
\* every requested file that opened
EnteredStreams ==
    IF InLoad
    THEN <<RootName>> \o SelectSeq(requested, LAMBDA name : name \in DOMAIN Files)
    ELSE << >>

\* how many times name occurs in log
Count(log, name) == Cardinality({i \in 1..Len(log) : log[i] = name})

\* C14: at every point of a Load and after it, the dependencies stored are the names
\* of the streams entered other than the shader's name, in the order of entering: as
\* many as such streams were entered, each name as many times as it was entered, and
\* never the shader's name.
C14_StoredOncePerEnteredStream ==
    /\ Len(stored) = Len(EnteredStreams) - Count(EnteredStreams, ShaderName)
    /\ \A i \in 1..Len(EnteredStreams) :
           EnteredStreams[i] # ShaderName =>
               Count(stored, EnteredStreams[i]) = Count(EnteredStreams, EnteredStreams[i])
    /\ Count(stored, ShaderName) = 0
    /\ stored = SelectSeq(EnteredStreams, LAMBDA name : name # ShaderName)

\* C14's case: a Load has flattened a stream that includes one file twice
C14_Witness ==
    /\ ret.op = "Load"
    /\ ret.result
    /\ Count(requested, NameI) = 2
    /\ Count(stored, NameI) = 2
    /\ Len(stored) = 3

\* what the walk of source in line order, from its k-th line on, meets first: an
\* include that does not open ("missing"), an include nested deeper than fuel allows
\* ("cyclic"), or the end of the stream ("ok")
RECURSIVE WalkOutcome(_, _, _)
WalkOutcome(source, k, fuel) ==
    IF k > Len(source.lines) THEN "ok"
    ELSE IF ~StartsWith(source.lines[k], kInclude) THEN WalkOutcome(source, k + 1, fuel)
    ELSE LET name == IncludeFileName(source.name, source.lines[k])
         IN  IF name \notin DOMAIN Files THEN "missing"
             ELSE IF fuel = 0 THEN "cyclic"
             ELSE CHOOSE outcome \in
                      {IF inner # "ok" THEN inner ELSE WalkOutcome(source, k + 1, fuel) :
                          inner \in {WalkOutcome(FileStream(name), 1, fuel - 1)}} : TRUE

\* the outcome of the walk from the root stream called name; a chain of includes
\* longer than the number of files holds one file twice
RootOutcome(name) ==
    WalkOutcome(SourceNamed(name), 1, Cardinality(DOMAIN Files))

\* C15: a Load that has both subsystems and whose walk meets no cycle returns, and
\* returns true exactly if the walk meets no include that does not open.
C15_AcyclicLoadTerminates ==
    /\ []((pc = "idle" /\ ret.op = "Load" /\ ret.graphics /\ ret.cache
              /\ RootOutcome(ret.source) # "cyclic")
             => (ret.result <=> RootOutcome(ret.source) = "ok"))
    /\ ((pc = "ProcessSource" /\ RootOutcome(stack[1].name) # "cyclic")
           ~> (pc = "idle" /\ ret.op = "Load"))

\* C15's case: a Load returned false for an include missing two streams deep
C15_Witness ==
    /\ pc = "idle"
    /\ ret.op = "Load"
    /\ ret.source = NameO
    /\ ~ret.result
    /\ RootOutcome(ret.source) = "missing"
    /\ Len(requested) = 3

\* C16: a Load whose walk meets a cycle of includes before any include that does not
\* open never returns: every step leaves it inside ProcessSource on the same root with
\* the shader as it was, and the nesting of ProcessSource reaches the deepest level
\* explored.
C16_CyclicIncludeNeverReturns ==
    /\ [][(pc = "ProcessSource" /\ RootOutcome(stack[1].name) = "cyclic") =>
              /\ pc' = "ProcessSource"
              /\ stack'[1].name = stack[1].name
              /\ ret' = NoCall
              /\ UNCHANGED shaderState]_vars
    /\ (pc = "ProcessSource" /\ RootOutcome(stack[1].name) = "cyclic")
           ~> (pc = "ProcessSource" /\ Len(stack) = MaxDepth)

\* C16's case: the file that includes itself is being flattened inside itself at the
\* deepest nesting explored, each level entered from the one above
C16_Witness ==
    /\ pc = "ProcessSource"
    /\ Len(stack) = MaxDepth
    /\ \A i \in 1..Len(stack) : stack[i].name = NameC
    /\ Count(requested, NameC) = MaxDepth - 1
    /\ ret = NoCall

\* what follows "#include" on the line, without the spaces around it
DirectiveArgument(line) ==
    Trimmed(Substring(line, Len(kInclude)))

\* arg without the characters open and close that enclose it, if they do
Stripped(arg, open, close) ==
    IF Len(arg) >= 2 /\ arg[1] = open /\ arg[Len(arg)] = close
    THEN SubSeq(arg, 2, Len(arg) - 1)
    ELSE arg

\* a step of ProcessSource that asks the file provider for a file
RequestsFile ==
    pc = "ProcessSource" /\ Len(requested') = Len(requested) + 1

RECURSIVE WalkReads(_, _)
WalkReads(source, k) ==
    IF k > Len(source.lines) THEN [reads |-> 0, failed |-> FALSE]
    ELSE LET line == source.lines[k]
             name == IncludeFileName(source.name, line)
             inner == IF ~StartsWith(line, kInclude) THEN [reads |-> 0, failed |-> FALSE]
                      ELSE IF name \notin DOMAIN Files THEN [reads |-> 0, failed |-> TRUE]
                      ELSE WalkReads(FileStream(name), 1)
             rest == WalkReads(source, k + 1)
         IN  IF inner.failed THEN [reads |-> 1 + inner.reads, failed |-> TRUE]
             ELSE [reads |-> 1 + inner.reads + rest.reads, failed |-> rest.failed]

\* the last Load returned false on an include that did not open
LoadFailedOnInclude ==
    pc = "idle" /\ ret.op = "Load" /\ ~ret.result /\ ret.graphics /\ ret.cache

\* C18: a Load that fails on an include keeps the dependencies stored before the
\* failing line and stores none for the file that did not open; that file is the last
\* one requested and its line the last one read; and no step of such a Load, the
\* failing one included, changes a variation or a stage map.
C18_FailedLoadKeepsDependencies ==
    /\ [](LoadFailedOnInclude =>
             /\ requested # << >>
             /\ requested[Len(requested)] \notin DOMAIN Files
             /\ \A i \in 1..(Len(requested) - 1) : requested[i] \in DOMAIN Files
             /\ Count(stored, requested[Len(requested)]) = 0
             /\ linesRead = WalkReads(SourceNamed(ret.source), 1).reads
             /\ stack = << >>)
    /\ [][/\ (pc = "ProcessSource" /\ pc' = "ProcessSource") =>
                 /\ SubSeq(stored', 1, Len(stored)) = stored
                 /\ UNCHANGED <<variations, vsVariations_, psVariations_>>
          /\ (pc = "ProcessSource" /\ pc' = "idle" /\ ~ret'.result) =>
                 /\ stored' = stored
                 /\ requested' = Append(requested, IncludeFileName(Top.name, NextLine(Top)))
                 /\ linesRead' = linesRead + 1
                 /\ UNCHANGED <<variations, vsVariations_, psVariations_>>
         ]_vars

\* C18's case: a Load failed on its second include after dependencies were stored for
\* the root and the first include, on a shader with variations of both stages, one
\* released by an earlier Load and one not
C18_Witness ==
    /\ LoadFailedOnInclude
    /\ stored = <<NameQ, NameI>>
    /\ Len(requested) = 2
    /\ DOMAIN vsVariations_ # {}
    /\ DOMAIN psVariations_ # {}
    /\ \E h \in 1..Len(variations) : variations[h].released
    /\ \E h \in 1..Len(variations) : ~variations[h].released

\* C19: until a Load has succeeded, whatever Loads have failed, the variations
\* created stay in their stage's map, none is released, and memoryUse_ is
\* sizeof(ShaderVariation) for each of them and nothing else; the first Load that
\* succeeds releases every one of them, keeps them in the maps, and publishes
\* sizeof(Shader) + both source lengths + sizeof(ShaderVariation) for each.
C19_VariationsBeforeFirstLoad ==
    /\ [](~Loaded =>
             /\ memoryUse_ = Len(variations) * SizeofShaderVariation
             /\ \A h \in 1..Len(variations) :
                    /\ ~variations[h].released
                    /\ h \in Handles(StageMap(variations[h].type)))
    /\ [][(~Loaded /\ vsSourceCode_' # << >>) =>
              /\ ret'.op = "Load"
              /\ ret'.result
              /\ Len(variations') = Len(variations)
              /\ \A h \in 1..Len(variations) :
                     /\ variations'[h].released
                     /\ h \in Handles(StageMapNext(variations[h].type))
              /\ vsVariations_' = vsVariations_
              /\ psVariations_' = psVariations_
              /\ memoryUse_' = SizeofShader + Len(vsSourceCode_') + Len(psSourceCode_')
                                   + Len(variations) * SizeofShaderVariation]_vars

\* C19's case: with no Load having succeeded, a Load failed on an include while
\* variations of both stages were in the maps
C19_Witness ==
    /\ ~Loaded
    /\ LoadFailedOnInclude
    /\ DOMAIN vsVariations_ # {}
    /\ DOMAIN psVariations_ # {}
    /\ memoryUse_ = Len(variations) * SizeofShaderVariation

====
